---- MODULE Spec2Model ----
(***************************************************************************)
(* The item CRUD service of go-postgres-crud/main.go: the startup sequence *)
(* of main and its five HTTP handlers, each of which runs one SQL          *)
(* statement against the items table.  A handler is one atomic action: it  *)
(* touches no state shared with other requests except through its single   *)
(* statement, so any interleaving of in-flight requests is a sequence of   *)
(* these actions in the order in which their statements reach the store.   *)
(***************************************************************************)
EXTENDS Integers, Sequences, FiniteSets, TLC

\* How many ids the items sequence hands out in a run.
MaxSeq == 2

VARIABLES
    phase,      \* position of main: "start", "opened", "ready", "serving", "exited"
    fatal,      \* which log.Fatal ended the process: "none", "open", "ping", "listen"
    failed,     \* the startup calls that returned an error
    rows,       \* the items table, in heap order
    seq,        \* last value handed out by the id sequence of the table
    req,        \* the request handled last
    resp,       \* the response written for it
    prevRows,   \* the table as it was when that request arrived
    postIds,    \* the ids returned by successful POST /items, oldest first
    vouched,    \* the item the latest POST or PUT vouches for, until a PUT or DELETE on its id
    deletedOk,  \* the id for which a DELETE /items/{id} returned 204 last, if any
    gone        \* ids whose row a DELETE /items/{id} has removed

vars == <<phase, fatal, failed, rows, seq, req, resp, prevRows, postIds, vouched, deletedOk, gone>>

\* ------------------------------------------------------------------ values

\* type Item struct
ZeroItem == [id |-> 0, name |-> "", description |-> "", price |-> 0]

\* JSON values of a request body's members
Absent == [t |-> "absent", s |-> "", n |-> 0]
Str(s) == [t |-> "string", s |-> s, n |-> 0]
Num(n) == [t |-> "number", s |-> "", n |-> n]

Obj(i, n, d, p) == [id |-> i, name |-> n, description |-> d, price |-> p]

\* A request body: whether its first JSON value parses, the members of that
\* value (an object), and whether more bytes follow the value.
MkBody(ok, m, tr) == [syntax |-> ok, members |-> m, trailing |-> tr]

Bodies ==
    { MkBody(FALSE, Obj(Absent, Absent, Absent, Absent), FALSE),         \* {"name":
      MkBody(TRUE, Obj(Absent, Str("a"), Absent, Absent), FALSE),        \* {"name":"a"}
      MkBody(TRUE, Obj(Absent, Str("a"), Str("d"), Num(1)), FALSE),
      MkBody(TRUE, Obj(Num(2), Str("b"), Str("d"), Num(2)), FALSE),      \* carries an id
      MkBody(TRUE, Obj(Absent, Str("a"), Str("d"), Str("x")), FALSE),    \* price is a string
      MkBody(TRUE, Obj(Absent, Str("a"), Str("d"), Num(1)), TRUE) }      \* {...} garbage

\* The bodies sent with PUT /items/{id}.
PutBodies ==
    { MkBody(FALSE, Obj(Absent, Absent, Absent, Absent), FALSE),
      MkBody(TRUE, Obj(Absent, Str("a"), Str("d"), Num(1)), FALSE),
      MkBody(TRUE, Obj(Num(2), Str("b"), Str("d"), Num(2)), FALSE) }

\* Path segments of /items/{id}, as the characters of the segment.
PathSegs ==
    { <<"x">>, <<"1", "x">>, <<"-", "1">> } \cup { <<c>> : c \in { ToString(i) : i \in 1..MaxSeq } }

\* ------------------------------------------------------------ conversions

Digits == {"0", "1", "2", "3", "4", "5", "6", "7", "8", "9"}

DigitVal(c) ==
    CASE c = "0" -> 0 [] c = "1" -> 1 [] c = "2" -> 2 [] c = "3" -> 3 [] c = "4" -> 4
      [] c = "5" -> 5 [] c = "6" -> 6 [] c = "7" -> 7 [] c = "8" -> 8 [] c = "9" -> 9

RECURSIVE ParseDigits(_, _)
ParseDigits(s, acc) ==
    IF s = <<>> THEN [err |-> FALSE, n |-> acc]
    ELSE IF Head(s) \notin Digits THEN [err |-> TRUE, n |-> 0]
    ELSE ParseDigits(Tail(s), acc * 10 + DigitVal(Head(s)))

\* strconv.Atoi on a path segment: an optional sign, then one or more digits.
AtoiLenient(s) == [err |-> FALSE, n |-> ParseDigits(s, 0).n]

Atoi(s) ==
    LET signed == s # <<>> /\ Head(s) \in {"+", "-"}
        body   == IF signed THEN Tail(s) ELSE s
        p      == ParseDigits(body, 0)
    IN  IF body = <<>> \/ p.err THEN [err |-> TRUE, n |-> 0]
        ELSE [err |-> FALSE, n |-> IF signed /\ Head(s) = "-" THEN 0 - p.n ELSE p.n]

\* json.NewDecoder(r.Body).Decode(&item): reads the first JSON value of the
\* stream and stores its members in the struct; a member that is absent
\* leaves the field at its zero value, bytes after the value are not read.
FieldTypeOk(v, t) == v.t \in {"absent", t}

DecodeIgnoreErr(body) ==
    [err |-> "",
     item |-> [id          |-> body.members.id.n,
               name        |-> body.members.name.s,
               description |-> body.members.description.s,
               price       |-> body.members.price.n]]

Decode(body) ==
    IF ~body.syntax THEN [err |-> "json: syntax error", item |-> ZeroItem]
    ELSE IF ~(/\ FieldTypeOk(body.members.id, "number")
              /\ FieldTypeOk(body.members.name, "string")
              /\ FieldTypeOk(body.members.description, "string")
              /\ FieldTypeOk(body.members.price, "number"))
         THEN [err |-> "json: cannot unmarshal", item |-> ZeroItem]
    ELSE [err |-> "",
          item |-> [id          |-> body.members.id.n,
                    name        |-> body.members.name.s,
                    description |-> body.members.description.s,
                    price       |-> body.members.price.n]]

\* ------------------------------------------------------------------ store

\* The items table hands out ids from an auto-incrementing sequence.
NextVal(s) == s + 1

\* A row carries, besides its four columns, the identity of the stored
\* tuple (rid), which no statement can name; it tells a row whose id
\* changed from a row that was replaced.
Row(rid, id, item) ==
    [rid |-> rid, id |-> id, name |-> item.name,
     description |-> item.description, price |-> item.price]

\* The column list id, name, description, price of the SELECT statements,
\* scanned into an Item.
Scan(r) == [id |-> r.id, name |-> r.name, description |-> r.description, price |-> r.price]

RECURSIVE ScanAll(_)
ScanAll(tbl) == IF tbl = <<>> THEN <<>> ELSE <<Scan(Head(tbl))>> \o ScanAll(Tail(tbl))

IdsOf(tbl) == { tbl[i].id : i \in 1..Len(tbl) }

\* INSERT INTO items (name, description, price) VALUES ($1, $2, $3) RETURNING id
InsertStmt(tbl, item, newId) == Append(tbl, Row(newId, newId, item))

\* SELECT id, name, description, price FROM items WHERE id = $1
IsId(r, id) == r.id = id

SelectById(tbl, id) == SelectSeq(tbl, LAMBDA r : IsId(r, id))

\* UPDATE items SET name = $1, description = $2, price = $3 WHERE id = $4
RECURSIVE UpdateStmtSetId(_, _, _)
UpdateStmtSetId(tbl, item, id) ==
    IF tbl = <<>> THEN <<>>
    ELSE <<IF IsId(Head(tbl), id) THEN Row(Head(tbl).rid, item.id, item) ELSE Head(tbl)>>
            \o UpdateStmtSetId(Tail(tbl), item, id)

RECURSIVE UpdateStmtKeepPrice(_, _, _)
UpdateStmtKeepPrice(tbl, item, id) ==
    IF tbl = <<>> THEN <<>>
    ELSE <<IF IsId(Head(tbl), id)
           THEN Row(Head(tbl).rid, Head(tbl).id, [item EXCEPT !.price = Head(tbl).price])
           ELSE Head(tbl)>>
            \o UpdateStmtKeepPrice(Tail(tbl), item, id)

RECURSIVE UpdateRows(_, _, _)
UpdateRows(tbl, item, id) ==
    IF tbl = <<>> THEN <<>>
    ELSE <<IF IsId(Head(tbl), id) THEN Row(Head(tbl).rid, Head(tbl).id, item) ELSE Head(tbl)>>
            \o UpdateRows(Tail(tbl), item, id)

UpdateStmtUpsert(tbl, item, id) ==
    IF id \in IdsOf(tbl) THEN UpdateRows(tbl, item, id) ELSE Append(tbl, Row(id, id, item))

UpdateStmt(tbl, item, id) == UpdateRows(tbl, item, id)

\* DELETE FROM items WHERE id = $1
DeleteStmtNoop(tbl, id) == tbl

DeleteStmt(tbl, id) == SelectSeq(tbl, LAMBDA r : ~IsId(r, id))

\* What the store does with one statement: it runs it, or fails it.  The
\* full-table SELECT streams its rows, so it can also fail after k rows
\* (rows.Next then returns false with rows.Err set), or hand over a row
\* that Scan rejects.
Outcome(res, k) == [res |-> res, k |-> k]

\* "none": the handler returned before its statement.
StmtOutcomes == { Outcome("none", 0), Outcome("ok", 0), Outcome("err", 0) }

ListOutcomes ==
    { Outcome("ok", 0), Outcome("err", 0) }
        \cup { Outcome("iter", k) : k \in 0..MaxSeq }
        \cup { Outcome("scan", k) : k \in 0..(MaxSeq - 1) }

\* The failure after k rows needs k rows to stream, the rejected row a row
\* after them.
CanHappen(out, tbl) ==
    /\ out.res = "iter" => out.k <= Len(tbl)
    /\ out.res = "scan" => out.k < Len(tbl)

\* -------------------------------------------------------------- responses

NoResp == [status |-> 0, ctype |-> "", kind |-> "none",
           item |-> ZeroItem, items |-> <<>>, text |-> ""]

\* http.Error(w, msg, code)
ErrorResp(code, msg) ==
    [status |-> code, ctype |-> "text/plain; charset=utf-8", kind |-> "text",
     item |-> ZeroItem, items |-> <<>>, text |-> msg]

\* json.NewEncoder(w).Encode(item) after setting Content-Type
ItemResp(item) ==
    [status |-> 200, ctype |-> "application/json", kind |-> "item",
     item |-> item, items |-> <<>>, text |-> ""]

\* A Go slice: nil or not, and its elements.  encoding/json writes a nil
\* slice as null and an empty non-nil slice as [].
Slice(isNil, elems) == [isNil |-> isNil, elems |-> elems]

AppendAll(sl, elems) ==
    IF elems = <<>> THEN sl ELSE Slice(FALSE, sl.elems \o elems)

ListResp(sl) ==
    [status |-> 200, ctype |-> "application/json",
     kind |-> IF sl.isNil THEN "null" ELSE "array",
     item |-> ZeroItem, items |-> sl.elems, text |-> ""]

\* w.WriteHeader(http.StatusNoContent)
NoContentResp(ctype) ==
    [status |-> 204, ctype |-> ctype, kind |-> "empty",
     item |-> ZeroItem, items |-> <<>>, text |-> ""]

\* The request as the handler saw it.
Request(op, seg, body, out) == [op |-> op, seg |-> seg, body |-> body, out |-> out]

NoBody == MkBody(FALSE, Obj(Absent, Absent, Absent, Absent), FALSE)

NoReq == Request("none", <<>>, NoBody, Outcome("none", 0))

\* ---------------------------------------------------------------- startup

Init ==
    /\ phase = "start"
    /\ fatal = "none"
    /\ failed = {}
    /\ rows = <<>>
    /\ seq = 0
    /\ req = NoReq
    /\ resp = NoResp
    /\ prevRows = <<>>
    /\ postIds = <<>>
    /\ vouched = [by |-> "none", item |-> ZeroItem]
    /\ deletedOk = {}
    /\ gone = {}

\* if err != nil { log.Fatalf(...) } after sqltrace.Open and after db.Ping
OnStartupIgnore(err, step, next) == [phase |-> next, fatal |-> "none"]

OnStartup(err, step, next) ==
    IF err THEN [phase |-> "exited", fatal |-> step]
    ELSE [phase |-> next, fatal |-> "none"]

StoreAndHistoryUnchanged ==
    UNCHANGED <<rows, seq, req, resp, prevRows, postIds, vouched, deletedOk, gone>>

\* db, err = sqltrace.Open("postgres", psqlInfo)
MainOpen(err) ==
    /\ phase = "start"
    /\ phase' = OnStartup(err, "open", "opened").phase
    /\ fatal' = OnStartup(err, "open", "opened").fatal
    /\ failed' = IF err THEN failed \cup {"open"} ELSE failed
    /\ StoreAndHistoryUnchanged

\* err = db.Ping()
MainPing(err) ==
    /\ phase = "opened"
    /\ phase' = OnStartup(err, "ping", "ready").phase
    /\ fatal' = OnStartup(err, "ping", "ready").fatal
    /\ failed' = IF err THEN failed \cup {"ping"} ELSE failed
    /\ StoreAndHistoryUnchanged

\* log.Fatal(http.ListenAndServe(":8000", handler)), after the routes are set
MainListen(err) ==
    /\ phase = "ready"
    /\ phase' = IF err THEN "exited" ELSE "serving"
    /\ fatal' = IF err THEN "listen" ELSE "none"
    /\ failed' = IF err THEN failed \cup {"listen"} ELSE failed
    /\ StoreAndHistoryUnchanged

\* --------------------------------------------------------------- handlers

NotVouched == [by |-> "none", item |-> ZeroItem]

Vouch(by, item) == [by |-> by, item |-> item]

Forget(v, id) == IF v.by # "none" /\ v.item.id = id THEN NotVouched ELSE v

\* Scan(&item.ID) of the RETURNING id
CreatedItemNoScan(item, newId) == item

CreatedItem(item, newId) == [item EXCEPT !.id = newId]

\* POST /items
createItem(body, out) ==
    /\ phase = "serving"
    /\ LET d == Decode(body) IN
       /\ (out.res = "none") = (d.err # "")
       /\ out.res = "ok" => seq < MaxSeq
       /\ req' = Request("createItem", <<>>, body, out)
       /\ prevRows' = rows
       /\ UNCHANGED <<phase, fatal, failed, deletedOk, gone>>
       /\ IF d.err # ""
          THEN /\ resp' = ErrorResp(400, d.err)
               /\ UNCHANGED <<rows, seq, postIds, vouched>>
          ELSE IF out.res # "ok"
          THEN /\ resp' = ErrorResp(500, "store error")
               /\ UNCHANGED <<rows, seq, postIds, vouched>>
          ELSE LET newId == NextVal(seq)
                   item  == CreatedItem(d.item, newId)
               IN  /\ rows' = InsertStmt(rows, d.item, newId)
                   /\ seq' = newId
                   /\ resp' = ItemResp(item)
                   /\ postIds' = Append(postIds, item.id)
                   /\ vouched' = Vouch("POST", item)

\* The rows the loop over rows.Next() appends before Next returns false.
Fetched(tbl, out) == IF out.res \in {"iter", "scan"} THEN SubSeq(tbl, 1, out.k) ELSE tbl

\* GET /items
getItems(out) ==
    /\ phase = "serving"
    /\ CanHappen(out, rows)
    /\ req' = Request("getItems", <<>>, NoBody, out)
    /\ prevRows' = rows
    /\ UNCHANGED <<phase, fatal, failed, rows, seq, postIds, vouched, deletedOk, gone>>
    /\ IF out.res = "err"
       THEN resp' = ErrorResp(500, "store error")
       ELSE IF out.res = "scan"
       THEN resp' = ErrorResp(500, "scan error")
       ELSE resp' = ListResp(AppendAll(Slice(FALSE, <<>>), ScanAll(Fetched(rows, out))))

\* GET /items/{id}
getItem(seg, out) ==
    /\ phase = "serving"
    /\ req' = Request("getItem", seg, NoBody, out)
    /\ prevRows' = rows
    /\ UNCHANGED <<phase, fatal, failed, rows, seq, postIds, vouched, deletedOk, gone>>
    /\ LET a == Atoi(seg) IN
       /\ (out.res = "none") = a.err
       /\ IF a.err
          THEN resp' = ErrorResp(400, "Invalid item ID")
          ELSE IF out.res # "ok"
          THEN resp' = ErrorResp(500, "store error")
          ELSE LET found == SelectById(rows, a.n) IN
               IF found = <<>>
               THEN resp' = ErrorResp(404, "Item not found")
               ELSE resp' = ItemResp(Scan(Head(found)))

\* PUT /items/{id}
updateItem(seg, body, out) ==
    /\ phase = "serving"
    /\ req' = Request("updateItem", seg, body, out)
    /\ prevRows' = rows
    /\ UNCHANGED <<phase, fatal, failed, seq, postIds, deletedOk, gone>>
    /\ LET a == Atoi(seg)
           d == Decode(body)
       IN  /\ (out.res = "none") = (a.err \/ d.err # "")
           /\ IF a.err
              THEN /\ resp' = ErrorResp(400, "Invalid item ID")
                   /\ UNCHANGED <<rows, vouched>>
              ELSE IF d.err # ""
              THEN /\ resp' = ErrorResp(400, d.err)
                   /\ UNCHANGED <<rows, vouched>>
              ELSE IF out.res # "ok"
              THEN /\ resp' = ErrorResp(500, "store error")
                   /\ rows' = rows
                   /\ vouched' = Forget(vouched, a.n)
              ELSE /\ rows' = UpdateStmt(rows, d.item, a.n)
                   /\ resp' = NoContentResp("application/json")
                   /\ vouched' = IF a.n \in IdsOf(rows)
                                 THEN Vouch("PUT", [d.item EXCEPT !.id = a.n])
                                 ELSE Forget(vouched, a.n)

\* DELETE /items/{id}
deleteItem(seg, out) ==
    /\ phase = "serving"
    /\ req' = Request("deleteItem", seg, NoBody, out)
    /\ prevRows' = rows
    /\ UNCHANGED <<phase, fatal, failed, seq, postIds>>
    /\ LET a == Atoi(seg) IN
       /\ (out.res = "none") = a.err
       /\ IF a.err
          THEN /\ resp' = ErrorResp(400, "Invalid item ID")
               /\ UNCHANGED <<rows, vouched, deletedOk, gone>>
          ELSE IF out.res # "ok"
          THEN /\ resp' = ErrorResp(500, "store error")
               /\ rows' = rows
               /\ vouched' = Forget(vouched, a.n)
               /\ UNCHANGED <<deletedOk, gone>>
          ELSE /\ rows' = DeleteStmt(rows, a.n)
               /\ resp' = NoContentResp("")
               /\ vouched' = Forget(vouched, a.n)
               /\ deletedOk' = {a.n}
               /\ gone' = gone \cup ({a.n} \cap IdsOf(rows))

Next ==
    \/ \E err \in BOOLEAN : MainOpen(err)
    \/ \E err \in BOOLEAN : MainPing(err)
    \/ \E err \in BOOLEAN : MainListen(err)
    \/ \E body \in Bodies, out \in StmtOutcomes : createItem(body, out)
    \/ \E out \in ListOutcomes : getItems(out)
    \/ \E seg \in PathSegs, out \in StmtOutcomes : getItem(seg, out)
    \/ \E seg \in PathSegs, body \in PutBodies, out \in StmtOutcomes :
            updateItem(seg, body, out)
    \/ \E seg \in PathSegs, out \in StmtOutcomes : deleteItem(seg, out)

Spec == Init /\ [][Next]_vars

\* ----------------------------------------------------------------- claims

\* What the last request was, read off the request itself.
ReqId == Atoi(req.seg).n

StoreOk == req.out.res = "ok"

\* A path segment that is the decimal notation of an integer.
IntegerSegment(seg) ==
    LET digits == IF seg # <<>> /\ Head(seg) \in {"+", "-"} THEN Tail(seg) ELSE seg
    IN  /\ digits # <<>>
        /\ \A i \in 1..Len(digits) : digits[i] \in Digits

MissingField(body) ==
    \E f \in {"name", "description", "price"} : body.members[f].t = "absent"

WrongType(body) ==
    \/ body.members.id.t \notin {"absent", "number"}
    \/ body.members.name.t \notin {"absent", "string"}
    \/ body.members.description.t \notin {"absent", "string"}
    \/ body.members.price.t \notin {"absent", "number"}

ValidBody(body) == body.syntax /\ ~MissingField(body) /\ ~WrongType(body)

\* The Item a body spells out, with the id the server gives it.
BodyItem(body, id) ==
    [id |-> id, name |-> body.members.name.s,
     description |-> body.members.description.s, price |-> body.members.price.n]

\* C1: a successful POST /items returns an Item with a positive id that no
\* earlier POST returned (ids of deleted items included), carrying the
\* body's values, and a GET /items/{id} for it, before any PUT or DELETE on
\* that id, returns 200 with the same Item.
C1_PostFreshIdThenGet ==
    /\ \A i \in 1..Len(postIds) :
          /\ postIds[i] > 0
          /\ \A j \in 1..Len(postIds) : i # j => postIds[i] # postIds[j]
    /\ (req.op = "createItem" /\ ValidBody(req.body) /\ StoreOk) =>
          /\ resp.status = 200
          /\ resp.kind = "item"
          /\ resp.item = BodyItem(req.body, postIds[Len(postIds)])
    /\ (req.op = "getItem" /\ StoreOk /\ vouched.by = "POST" /\ ReqId = vouched.item.id) =>
          /\ resp.status = 200
          /\ resp.kind = "item"
          /\ resp.item = vouched.item

C1_Witness ==
    /\ req.op = "getItem"
    /\ vouched.by = "POST"
    /\ ReqId = vouched.item.id
    /\ resp.status = 200
    /\ resp.item = vouched.item
    /\ Len(postIds) = MaxSeq
    /\ gone # {}

C3_IdUniqueImmutable ==
    /\ \A i, j \in 1..Len(rows) : rows[i].id = rows[j].id => i = j
    /\ \A i \in 1..Len(prevRows) : \A j \in 1..Len(rows) :
          prevRows[i].rid = rows[j].rid => prevRows[i].id = rows[j].id
    /\ (req.op = "updateItem" /\ resp.status = 204 /\ ReqId \in IdsOf(prevRows)) =>
          ReqId \in IdsOf(rows)
    /\ (req.op = "createItem" /\ resp.status = 200) =>
          /\ rows[Len(rows)].id = resp.item.id
          /\ resp.item.id \notin IdsOf(prevRows)

C3_Witness ==
    /\ req.op = "updateItem"
    /\ resp.status = 204
    /\ req.body.members.id.t = "number"
    /\ req.body.members.id.n # ReqId
    /\ ReqId \in IdsOf(prevRows)
    /\ ReqId \in IdsOf(rows)
    /\ Len(rows) = MaxSeq

\* C4: PUT /items/{id} with a valid body and DELETE /items/{id}, for an
\* integer id that has no row, return 204 and leave the table as it was.
C4_AbsentIdIsNoOp ==
    (/\ \/ req.op = "updateItem" /\ ValidBody(req.body)
        \/ req.op = "deleteItem"
     /\ IntegerSegment(req.seg)
     /\ StoreOk
     /\ ReqId \notin IdsOf(prevRows)) =>
        /\ resp.status = 204
        /\ resp.kind = "empty"
        /\ rows = prevRows

C4_Witness ==
    /\ req.op = "updateItem"
    /\ ValidBody(req.body)
    /\ StoreOk
    /\ ReqId \notin IdsOf(prevRows)
    /\ resp.status = 204
    /\ Len(rows) > 0

\* C5 as stated: GET /items/{id} returns 404 "Item not found" for an id
\* without a row, and after a DELETE /items/{id} returned 204 every later
\* GET for that id returns 404.
C5_DeletedNeverRetrievable ==
    /\ (req.op = "getItem" /\ StoreOk /\ ReqId \notin IdsOf(prevRows)) =>
          resp.status = 404 /\ resp.text = "Item not found"
    /\ (req.op = "getItem" /\ StoreOk /\ ReqId \in deletedOk) => resp.status = 404

\* C5 amended: GET /items/{id} returns 404 "Item not found" for an id
\* without a row; a DELETE that returns 204 leaves no row under its id, and
\* once a DELETE has removed the row of an id, that id has no row again and
\* every later GET for it returns 404.
C5_RemovedNeverRetrievable ==
    /\ (req.op = "getItem" /\ StoreOk /\ ReqId \notin IdsOf(prevRows)) =>
          resp.status = 404 /\ resp.text = "Item not found"
    /\ (req.op = "deleteItem" /\ resp.status = 204) => ReqId \notin IdsOf(rows)
    /\ gone \cap IdsOf(rows) = {}
    /\ (req.op = "getItem" /\ StoreOk /\ ReqId \in gone) => resp.status = 404

C5_Witness ==
    /\ req.op = "getItem"
    /\ ReqId \in gone
    /\ resp.status = 404
    /\ seq > ReqId
    /\ Len(rows) > 0

\* C6: a request whose store call fails is answered 500, leaves the rows
\* unchanged and leaves the service serving.
C6_StoreFailureIs500 ==
    req.out.res \in {"err", "iter", "scan"} =>
        /\ resp.status = 500
        /\ rows = prevRows
        /\ phase = "serving"

\* C7: when the startup open or ping fails the process exits and handles
\* no request; it serves only after both have succeeded.
C7_NoServingAfterStartupFailure ==
    /\ (failed \cap {"open", "ping"} # {}) => (phase = "exited" /\ req.op = "none")
    /\ (phase = "serving" \/ req.op # "none") => failed = {}
    /\ (phase = "exited") = (fatal # "none")

C7_Witness ==
    /\ "ping" \in failed
    /\ phase = "exited"
    /\ fatal = "ping"

\* C8: GET, PUT and DELETE on /items/{id} with a path segment that is no
\* integer return 400 "Invalid item ID" without running a statement and
\* leave the table unchanged, for PUT whatever the body is.
C8_BadIdIs400 ==
    (req.op \in {"getItem", "updateItem", "deleteItem"} /\ ~IntegerSegment(req.seg)) =>
        /\ resp.status = 400
        /\ resp.text = "Invalid item ID"
        /\ req.out.res = "none"
        /\ rows = prevRows

C8_Witness ==
    /\ req.op = "updateItem"
    /\ ~IntegerSegment(req.seg)
    /\ ~req.body.syntax
    /\ resp.status = 400
    /\ Len(rows) > 0

\* C9: a GET /items answered 200 carries a JSON array, never null, of
\* exactly the rows of the table, one element per row.
C9_ListIsAllRows ==
    (req.op = "getItems" /\ resp.status = 200) =>
        /\ resp.kind = "array"
        /\ resp.items = ScanAll(prevRows)

\* C10: PUT /items/{id} with a valid body for an id that has a row returns
\* 204 with an empty body, replaces that row's name, description and price
\* by the body's, keeps its id and every other row, and a GET /items/{id}
\* before any other PUT or DELETE on the id returns 200 with those values.
C10_PutReplacesInPlace ==
    /\ (/\ req.op = "updateItem"
        /\ ValidBody(req.body)
        /\ IntegerSegment(req.seg)
        /\ StoreOk
        /\ ReqId \in IdsOf(prevRows)) =>
          /\ resp.status = 204
          /\ resp.kind = "empty"
          /\ Len(rows) = Len(prevRows)
          /\ \A i \in 1..Len(prevRows) :
                IF prevRows[i].id = ReqId
                THEN /\ rows[i].rid = prevRows[i].rid
                     /\ Scan(rows[i]) = BodyItem(req.body, ReqId)
                ELSE rows[i] = prevRows[i]
    /\ (req.op = "getItem" /\ StoreOk /\ vouched.by = "PUT" /\ ReqId = vouched.item.id) =>
          /\ resp.status = 200
          /\ resp.kind = "item"
          /\ resp.item = vouched.item

C10_Witness ==
    /\ req.op = "getItem"
    /\ vouched.by = "PUT"
    /\ ReqId = vouched.item.id
    /\ resp.status = 200
    /\ resp.item = [id |-> 1, name |-> "b", description |-> "d", price |-> 2]
    /\ Len(rows) = MaxSeq

====
